---- MODULE Spec2Model ----
(***************************************************************************)
(* Segmented Sieve of Eratosthenes: the serial program                     *)
(* (code/sieve_serial.cpp) and the OpenMP program (code/sieve_openmp.cpp). *)
(*                                                                         *)
(* One behaviour is one run of one routine, chosen in Init by prog:        *)
(*   "simple_sieve"  simple_sieve(limit) called on its own                 *)
(*   "serial"        sieve_serial(N)                                       *)
(*   "openmp"        sieve_openmp(N, num_threads)                          *)
(*   "wide"          the integer expressions of both segment loops,        *)
(*                   evaluated for N up to 10^9 with the shipped SEG_SIZE  *)
(* The segment width is the variable W: SEG_SIZE itself, or a small value  *)
(* substituted for it so that runs with many segments are reachable.       *)
(***************************************************************************)
EXTENDS Integers, Sequences, FiniteSets, TLC

\* ------------------------------------------------------------------
\* Bounds of the model
\* ------------------------------------------------------------------
MaxN == 27
MaxNPar == 6
MaxW == 4
MaxT == 3
MaxNTeam == 5
MaxNLive == 7
MaxTLive == 2
MaxLimit == 30
MaxWideSteps == 60
WideMaxN == 1000000000

\* ------------------------------------------------------------------
\* Program constants
\* ------------------------------------------------------------------
SEG_SIZE == 1048576
first_value == 3
INT_MAX == 2147483647

\* Widths substituted for SEG_SIZE, and SEG_SIZE itself.
Widths == (1..MaxW) \cup {8, SEG_SIZE}
\* Reference inputs of the serial program (run with the shipped SEG_SIZE).
RefN == {100, 1000}
Threads == 1..MaxT
\* The smallest teams, run on every N up to MaxN.
SmallTeams == {1, 2}
\* A larger team, run on the smallest inputs only.
BigTeams == {4}

\* ------------------------------------------------------------------
\* Arithmetic helpers
\* ------------------------------------------------------------------
Min(a, b) == IF a < b THEN a ELSE b
Max(a, b) == IF a > b THEN a ELSE b

\* C++ integer division truncates toward zero.
TruncDiv(a, b) ==
    IF a >= 0 THEN a \div b ELSE -((-a) \div b)

\* C++ remainder has the sign of the dividend.
TruncMod(a, b) == a - b * TruncDiv(a, b)

RECURSIVE SqrtSearch(_, _, _)
SqrtSearch(n, lo, hi) ==
    IF lo >= hi THEN lo
    ELSE LET mid == (lo + hi + 1) \div 2
         IN IF mid <= n \div mid THEN SqrtSearch(n, mid, hi)
            ELSE SqrtSearch(n, lo, mid - 1)

\* A mutant of FloorSqrt: rounds the square root up.
FloorSqrt_ceil(n) ==
    LET r == SqrtSearch(n, 0, n) IN IF r * r = n THEN r ELSE r + 1

\* (int)floor(sqrt((long double)N))
FloorSqrt(n) == SqrtSearch(n, 0, n)

\* ------------------------------------------------------------------
\* Reference definitions (mathematics, not code)
\* ------------------------------------------------------------------
IsPrime(n) == n >= 2 /\ \A d \in 2..SqrtSearch(n, 0, n) : n % d # 0
PrimesUpTo(n) == {q \in 2..n : IsPrime(q)}
PrimeCount(n) == Cardinality(PrimesUpTo(n))

RECURSIVE SetToSortedSeq(_)
SetToSortedSeq(S) ==
    IF S = {} THEN << >>
    ELSE LET m == CHOOSE y \in S : \A z \in S : y <= z
         IN << m >> \o SetToSortedSeq(S \ {m})

\* ------------------------------------------------------------------
\* simple_sieve(limit): the helpers of its three loops
\* ------------------------------------------------------------------

\* vector<bool> is_prime(limit + 1, true); is_prime[0] = is_prime[1] = false
InitIsPrime(lim) == [k \in 0..lim |-> k >= 2]

\* A mutant of OuterContinues: strict comparison.
OuterContinues_strict(ii, lim) == ii * ii < lim

\* The outer loop's condition: (long long)i * i <= limit
OuterContinues(ii, lim) == ii * ii <= lim

\* for (long long j = 1LL * i * i; j <= limit; j += i) is_prime[(int)j] = false;
RECURSIVE MarkFrom(_, _, _, _)
MarkFrom(isp, j, ii, lim) ==
    IF j > lim THEN isp
    ELSE MarkFrom([isp EXCEPT ![j] = FALSE], j + ii, ii, lim)

\* for (int i = 2; i <= limit; i++) if (is_prime[i]) primes.push_back(i);
RECURSIVE CollectFrom(_, _, _, _)
CollectFrom(isp, k, lim, acc) ==
    IF k > lim THEN acc
    ELSE CollectFrom(isp, k + 1, lim, IF isp[k] THEN Append(acc, k) ELSE acc)

\* ------------------------------------------------------------------
\* The segment loop: bounds and buffer
\* ------------------------------------------------------------------

\* A mutant of SegHigh: the segment ends one past its last number.
SegHigh_plus1(lo, w, n) == Min(lo + w, n)

\* high = min(low + SEG_SIZE - 1, N)
SegHigh(lo, w, n) == Min(lo + w - 1, n)

\* if (low % 2 == 0) low++;
BumpOdd(lo) == IF TruncMod(lo, 2) = 0 THEN lo + 1 ELSE lo

\* odd_count = ((high - low) / 2) + 1
OddCount(lo, hi) == TruncDiv(hi - lo, 2) + 1

\* vector<bool> segment((size_t)odd_count, true)
NewSegment(odd_count) == [k \in 0..(odd_count - 1) |-> TRUE]

\* ((low + p64 - 1) / p64) * p64
FirstMultiple(lo, p) == TruncDiv(lo + p - 1, p) * p

\* A mutant of MarkStart: the first multiple in the segment, p*p ignored.
MarkStart_low(lo, p) ==
    LET s == FirstMultiple(lo, p)
    IN IF TruncMod(s, 2) = 0 THEN s + p ELSE s

\* start = max(p2, ((low + p64 - 1) / p64) * p64); if (start % 2 == 0) start += p64;
MarkStart(lo, p) ==
    LET s == Max(p * p, FirstMultiple(lo, p))
    IN IF TruncMod(s, 2) = 0 THEN s + p ELSE s

\* A mutant of Visited: the loop condition lets one value past high through.
Visited_past(start, hi, p) == {x \in start..(hi + 2 * p) : (x - start) % (2 * p) = 0}

\* The values x the marking loop visits: for (x = start; x <= high; x += 2 * p64)
Visited(start, hi, p) == {x \in start..hi : (x - start) % (2 * p) = 0}

\* idx = (x - low) / 2
IndexOf(x, lo) == TruncDiv(x - lo, 2)

\* sieve_serial's marking loop for one prime: the write is guarded by
\* if (idx >= 0 && idx < odd_count).
SerialMarkPrime(seg, lo, hi, start, p) ==
    LET odd_count == OddCount(lo, hi)
        written == {IndexOf(x, lo) : x \in Visited(start, hi, p)}
    IN [k \in DOMAIN seg |->
            IF k >= 0 /\ k < odd_count /\ k \in written THEN FALSE ELSE seg[k]]

\* sieve_serial's loop over the base primes: skip 2, stop at the first p with p*p > high.
RECURSIVE SerialMark(_, _, _, _, _)
SerialMark(seg, lo, hi, bp, k) ==
    IF k > Len(bp) THEN seg
    ELSE LET p == bp[k]
         IN IF p = 2 THEN SerialMark(seg, lo, hi, bp, k + 1)
            ELSE IF p * p > hi THEN seg
            ELSE SerialMark(SerialMarkPrime(seg, lo, hi, MarkStart(lo, p), p),
                            lo, hi, bp, k + 1)

\* sieve_openmp's marking loop for one prime: segment[(size_t)idx] = false is
\* unchecked; oob records a write outside the buffer (undefined behaviour).
OmpMarkPrime(st, lo, hi, start, p) ==
    LET written == {IndexOf(x, lo) : x \in Visited(start, hi, p)}
    IN [seg |-> [k \in DOMAIN st.seg |-> IF k \in written THEN FALSE ELSE st.seg[k]],
        oob |-> st.oob \/ ~(written \subseteq DOMAIN st.seg)]

\* sieve_openmp's loop over the base primes.
RECURSIVE OmpMark(_, _, _, _, _)
OmpMark(st, lo, hi, bp, k) ==
    IF k > Len(bp) THEN st
    ELSE LET p == bp[k]
         IN IF p = 2 THEN OmpMark(st, lo, hi, bp, k + 1)
            ELSE IF p * p > hi THEN st
            ELSE OmpMark(OmpMarkPrime(st, lo, hi, MarkStart(lo, p), p),
                         lo, hi, bp, k + 1)

\* for (i = 0; i < odd_count; i++) if (segment[i]) { num = low + 2*i; if (num <= N) count++; }
CountSurvivors(seg, lo, odd_count, n) ==
    Cardinality({k \in 0..(odd_count - 1) : seg[k] /\ lo + 2 * k <= n})

\* A mutant of NumSegments: rounds down.
NumSegments_floor(n, w) == TruncDiv(n - first_value + 1, w)

\* total_numbers = N - first_value + 1; num_segments = (total_numbers + SEG_SIZE - 1) / SEG_SIZE
NumSegments(n, w) == TruncDiv((n - first_value + 1) + w - 1, w)

\* low = first_value + seg_id * SEG_SIZE
OmpRawLow(sid, w) == first_value + sid * w

\* ------------------------------------------------------------------
\* The routines as functions of their arguments
\* ------------------------------------------------------------------

\* simple_sieve's outer loop from i on.
RECURSIVE SieveLoop(_, _, _)
SieveLoop(isp, ii, lim) ==
    IF ~OuterContinues(ii, lim) THEN isp
    ELSE SieveLoop(IF isp[ii] THEN MarkFrom(isp, ii * ii, ii, lim) ELSE isp,
                   ii + 1, lim)

\* simple_sieve(limit): the returned vector.
simple_sieve(lim) == CollectFrom(SieveLoop(InitIsPrime(lim), 2, lim), 2, lim, << >>)

\* sieve_serial's segment loop from the loop variable's value lo on; count is prime_count.
\* The odd adjustment is made to the loop variable itself, so the increment
\* low += SEG_SIZE starts from the adjusted value.
RECURSIVE SerialLoop(_, _, _, _, _)
SerialLoop(lo, n, w, bp, count) ==
    IF ~(lo <= n) THEN count
    ELSE LET hi == SegHigh(lo, w, n)
             adj == BumpOdd(lo)
         IN IF hi < adj THEN SerialLoop(adj + w, n, w, bp, count)
            ELSE LET odd_count == OddCount(adj, hi)
                     seg == SerialMark(NewSegment(odd_count), adj, hi, bp, 1)
                 IN SerialLoop(adj + w, n, w, bp,
                               count + CountSurvivors(seg, adj, odd_count, n))

\* sieve_serial(N) with segment width w.
sieve_serial(n, w) ==
    IF n < 2 THEN 0
    ELSE SerialLoop(3, n, w, simple_sieve(FloorSqrt(n)), 1)

\* The local_count that iteration sid of sieve_openmp's loop computes (0 when skipped).
OmpLocalCount(sid, n, w, bp) ==
    LET hi == SegHigh(OmpRawLow(sid, w), w, n)
        lo == BumpOdd(OmpRawLow(sid, w))
    IN IF lo > hi THEN 0
       ELSE LET odd_count == OddCount(lo, hi)
                st == OmpMark([seg |-> NewSegment(odd_count), oob |-> FALSE],
                              lo, hi, bp, 1)
            IN CountSurvivors(st.seg, lo, odd_count, n)

RECURSIVE SumTo(_, _, _)
SumTo(f, from, to) == IF from > to THEN 0 ELSE f[from] + SumTo(f, from + 1, to)

\* Sum of a function over its (integer interval) domain 0..k or 1..k.
SumOf(f) ==
    IF DOMAIN f = {} THEN 0
    ELSE LET lo == CHOOSE a \in DOMAIN f : \A b \in DOMAIN f : a <= b
         IN SumTo(f, lo, lo + Cardinality(DOMAIN f) - 1)

\* sieve_openmp(N, T) with segment width w, as the sum the reduction yields.
sieve_openmp(n, w) ==
    IF n < 2 THEN 0
    ELSE IF first_value > n THEN 1
    ELSE LET bp == simple_sieve(FloorSqrt(n))
         IN 1 + SumOf([k \in 0..(NumSegments(n, w) - 1) |-> OmpLocalCount(k, n, w, bp)])

\* ------------------------------------------------------------------
\* State
\* ------------------------------------------------------------------
VARIABLES
    prog,            \* which routine this run executes
    N,               \* the argument N
    W,               \* the segment width in force (SEG_SIZE or its substitute)
    num_threads,     \* the argument num_threads of sieve_openmp
    pc,              \* position of the main thread
    ret,             \* the returned count (-1 until the routine returns one)
    limit,           \* simple_sieve's argument / floor(sqrt(N))
    is_prime,        \* simple_sieve's is_prime vector
    i,               \* simple_sieve's outer loop variable
    base_primes,     \* the vector simple_sieve returned
    low,             \* sieve_serial: the loop variable low
    high,            \* sieve_serial: high of the current segment
    segment,         \* sieve_serial: the current segment buffer
    prime_count,     \* sieve_serial: the running count
    segment_number,  \* sieve_serial: number of loop iterations entered
    seglog,          \* history: the bounds seen by each serial iteration
    num_segments,    \* sieve_openmp: number of loop iterations
    next_seg,        \* sieve_openmp: the dynamic schedule's next unclaimed iteration
    tpc,             \* sieve_openmp: position of each thread of the team
    seg_id,          \* sieve_openmp: each thread's current iteration
    tlow,            \* sieve_openmp: each thread's low
    thigh,           \* sieve_openmp: each thread's high
    tsegment,        \* sieve_openmp: each thread's segment buffer
    priv,            \* sieve_openmp: each thread's private copy of total_count
    total_count,     \* sieve_openmp: the shared (original) total_count
    processed,       \* history: how many times each iteration's body has run
    ub,              \* a write outside a segment buffer has happened
    actor,           \* history: the thread that took the last step (0 = main thread)
    probe            \* "wide" runs: the integer expressions being evaluated

sieveVars  == << limit, is_prime, i, base_primes >>
serialVars == << low, high, segment, prime_count, segment_number, seglog >>
teamVars   == << next_seg, tpc, seg_id, tlow, thigh, tsegment, priv, processed, ub >>
ompVars    == << num_segments, total_count, teamVars >>
inputVars  == << prog, N, W, num_threads >>
vars == << inputVars, pc, ret, sieveVars, serialVars, ompVars, actor, probe >>

NoProbe == [seg_id |-> 0, offset |-> 0, raw_low |-> 0, high_sum |-> 0, low |-> 0,
            high |-> 0, next_low |-> 0, p |-> 0, p2 |-> 0, ceil_sum |-> 0,
            first |-> 0, start |-> 0, x |-> 0]

\* Large inputs: the largest N, its neighbour, an N whose last segment is short,
\* and 10^8.
WideN == {WideMaxN, WideMaxN - 1, 999293034, 100000000}
\* Base primes tried on large inputs (those that are primes <= limit).
WidePrimeSample == {3, 5, 7, 9973, 10007, 31607}

\* The inputs of a run.
Inputs ==
    [prog : {"simple_sieve"}, N : {0}, W : {SEG_SIZE}, T : {1}, limit : 0..MaxLimit]
    \cup [prog : {"serial"}, N : 0..MaxN, W : Widths, T : {1}, limit : {0}]
    \cup [prog : {"serial"}, N : RefN, W : {SEG_SIZE}, T : {1}, limit : {0}]
    \cup [prog : {"openmp"}, N : 0..MaxN, W : Widths, T : SmallTeams, limit : {0}]
    \cup [prog : {"openmp"}, N : 0..MaxNPar, W : Widths, T : Threads, limit : {0}]
    \cup [prog : {"openmp"}, N : 0..MaxNTeam, W : Widths, T : BigTeams, limit : {0}]
    \cup [prog : {"wide"}, N : WideN, W : {SEG_SIZE}, T : {1}, limit : {0}]

InitFrom(inputs) ==
    \E inp \in inputs :
        /\ prog = inp.prog
        /\ N = inp.N
        /\ W = inp.W
        /\ num_threads = inp.T
        /\ limit = inp.limit
        /\ pc = IF inp.prog = "simple_sieve" THEN "sieve_enter" ELSE "entry"
        /\ ret = -1
        /\ is_prime = << >>
        /\ i = 0
        /\ base_primes = << >>
        /\ low = 0
        /\ high = 0
        /\ segment = << >>
        /\ prime_count = 0
        /\ segment_number = 0
        /\ seglog = << >>
        /\ num_segments = 0
        /\ next_seg = 0
        /\ tpc = [t \in 1..inp.T |-> "off"]
        /\ seg_id = [t \in 1..inp.T |-> 0]
        /\ tlow = [t \in 1..inp.T |-> 0]
        /\ thigh = [t \in 1..inp.T |-> 0]
        /\ tsegment = [t \in 1..inp.T |-> << >>]
        /\ priv = [t \in 1..inp.T |-> 0]
        /\ total_count = 0
        /\ processed = << >>
        /\ ub = FALSE
        /\ actor = 0
        /\ probe = NoProbe

Init == InitFrom(Inputs)

\* ------------------------------------------------------------------
\* simple_sieve(limit)
\* ------------------------------------------------------------------

\* Allocate is_prime and clear entries 0 and 1; i = 2.
simple_sieve_enter ==
    /\ pc = "sieve_enter"
    /\ is_prime' = InitIsPrime(limit)
    /\ i' = 2
    /\ pc' = "sieve_loop"
    /\ actor' = 0
    /\ UNCHANGED << inputVars, ret, limit, base_primes, serialVars, ompVars, probe >>

\* One iteration of the outer loop: mark the multiples of i if i is still prime.
simple_sieve_outer ==
    /\ pc = "sieve_loop"
    /\ OuterContinues(i, limit)
    /\ is_prime' = IF is_prime[i] THEN MarkFrom(is_prime, i * i, i, limit)
                   ELSE is_prime
    /\ i' = i + 1
    /\ actor' = 0
    /\ UNCHANGED << inputVars, pc, ret, limit, base_primes, serialVars, ompVars, probe >>

\* The outer loop has ended: collect the survivors and return them.
simple_sieve_collect ==
    /\ pc = "sieve_loop"
    /\ ~OuterContinues(i, limit)
    /\ base_primes' = CollectFrom(is_prime, 2, limit, << >>)
    /\ pc' = IF prog = "simple_sieve" THEN "done" ELSE "sieved"
    /\ actor' = 0
    /\ UNCHANGED << inputVars, ret, limit, is_prime, i, serialVars, ompVars, probe >>

\* ------------------------------------------------------------------
\* sieve_serial(N)
\* ------------------------------------------------------------------

\* N < 2 returns 0; otherwise prime_count = 1, limit = floor(sqrt(N)), call simple_sieve.
serial_entry ==
    /\ pc = "entry"
    /\ prog = "serial"
    /\ actor' = 0
    /\ IF N < 2
       THEN /\ ret' = 0
            /\ pc' = "done"
            /\ UNCHANGED << limit, prime_count >>
       ELSE /\ prime_count' = 1
            /\ limit' = FloorSqrt(N)
            /\ pc' = "sieve_enter"
            /\ UNCHANGED ret
    /\ UNCHANGED << inputVars, is_prime, i, base_primes, low, high, segment,
                    segment_number, seglog, ompVars, probe >>

\* simple_sieve has returned: segment_number = 0 and the loop starts at low = 3.
serial_loop_init ==
    /\ pc = "sieved"
    /\ prog = "serial"
    /\ segment_number' = 0
    /\ low' = 3
    /\ pc' = "loop"
    /\ actor' = 0
    /\ UNCHANGED << inputVars, ret, sieveVars, high, segment, prime_count, seglog,
                    ompVars, probe >>

\* The head of one loop iteration: high, segment_number++, the odd adjustment of the
\* loop variable itself, and either `continue` (then low += SEG_SIZE) or the buffer.
serial_segment ==
    /\ pc = "loop"
    /\ low <= N
    /\ LET hi == SegHigh(low, W, N)
           lo == BumpOdd(low)
       IN /\ high' = hi
          /\ segment_number' = segment_number + 1
          /\ seglog' = Append(seglog, [raw_low |-> low, low |-> lo, high |-> hi])
          /\ IF hi < lo
             THEN /\ low' = lo + W
                  /\ UNCHANGED << segment, pc >>
             ELSE /\ low' = lo
                  /\ segment' = NewSegment(OddCount(lo, hi))
                  /\ pc' = "mark"
    /\ actor' = 0
    /\ UNCHANGED << inputVars, ret, sieveVars, prime_count, ompVars, probe >>

\* The loop over the base primes, marking composites in the segment.
serial_mark ==
    /\ pc = "mark"
    /\ prog = "serial"
    /\ segment' = SerialMark(segment, low, high, base_primes, 1)
    /\ pc' = "count"
    /\ actor' = 0
    /\ UNCHANGED << inputVars, ret, sieveVars, low, high, prime_count, segment_number,
                    seglog, ompVars, probe >>

\* Count the survivors into prime_count; the iteration ends with low += SEG_SIZE.
serial_count ==
    /\ pc = "count"
    /\ prog = "serial"
    /\ prime_count' = prime_count
                      + CountSurvivors(segment, low, OddCount(low, high), N)
    /\ low' = low + W
    /\ segment' = << >>
    /\ pc' = "loop"
    /\ actor' = 0
    /\ UNCHANGED << inputVars, ret, sieveVars, high, segment_number, seglog, ompVars,
                    probe >>

\* The loop condition low <= N fails: return prime_count.
serial_return ==
    /\ pc = "loop"
    /\ ~(low <= N)
    /\ ret' = prime_count
    /\ pc' = "done"
    /\ actor' = 0
    /\ UNCHANGED << inputVars, sieveVars, serialVars, ompVars, probe >>

\* ------------------------------------------------------------------
\* sieve_openmp(N, num_threads)
\* ------------------------------------------------------------------

\* A mutant of PrivInit: the private copy starts as a copy of the original.
PrivInit_copy(orig) == orig

\* reduction(+:total_count): each thread's private copy starts at the identity of +.
PrivInit(orig) == 0

\* A mutant of ClaimAdvance: the schedule's counter is not advanced by a claim.
ClaimAdvance_stale(n) == n

\* schedule(dynamic): a claim takes iteration n and leaves n + 1 as the next one.
ClaimAdvance(n) == n + 1

\* A mutant of NoMoreIterations: off by one.
NoMoreIterations_late(n, nseg) == n > nseg

\* The loop condition seg_id < num_segments fails for the next iteration.
NoMoreIterations(n, nseg) == ~(n < nseg)

\* A mutant of BufferOf: one buffer shared by the whole team.
BufferOf_shared(t) == 1

\* vector<bool> segment is declared in the loop body: each thread has its own.
BufferOf(t) == t

\* N < 2 returns 0; otherwise total_count = 1, limit = floor(sqrt(N)), call simple_sieve.
omp_entry ==
    /\ pc = "entry"
    /\ prog = "openmp"
    /\ actor' = 0
    /\ IF N < 2
       THEN /\ ret' = 0
            /\ pc' = "done"
            /\ UNCHANGED << limit, total_count >>
       ELSE /\ total_count' = 1
            /\ limit' = FloorSqrt(N)
            /\ pc' = "sieve_enter"
            /\ UNCHANGED ret
    /\ UNCHANGED << inputVars, is_prime, i, base_primes, serialVars, num_segments,
                    teamVars, probe >>

\* simple_sieve has returned: first_value > N returns total_count; otherwise
\* num_segments is computed and the parallel region starts its team.
omp_plan ==
    /\ pc = "sieved"
    /\ prog = "openmp"
    /\ actor' = 0
    /\ IF first_value > N
       THEN /\ ret' = total_count
            /\ pc' = "done"
            /\ UNCHANGED << num_segments, teamVars >>
       ELSE /\ num_segments' = NumSegments(N, W)
            /\ next_seg' = 0
            /\ tpc' = [t \in DOMAIN tpc |-> "idle"]
            /\ priv' = [t \in DOMAIN priv |-> PrivInit(total_count)]
            /\ processed' = [k \in 0..(NumSegments(N, W) - 1) |-> 0]
            /\ pc' = "parallel"
            /\ UNCHANGED << ret, seg_id, tlow, thigh, tsegment, ub >>
    /\ UNCHANGED << inputVars, sieveVars, serialVars, total_count, probe >>

\* Thread t claims the next iteration and runs the head of its body: low, high, the
\* odd adjustment, and either `continue` or the allocation of its buffer.
omp_claim(t) ==
    /\ pc = "parallel"
    /\ tpc[t] = "idle"
    /\ next_seg < num_segments
    /\ LET sid == next_seg
           hi == SegHigh(OmpRawLow(sid, W), W, N)
           lo == BumpOdd(OmpRawLow(sid, W))
       IN /\ next_seg' = ClaimAdvance(next_seg)
          /\ seg_id' = [seg_id EXCEPT ![t] = sid]
          /\ tlow' = [tlow EXCEPT ![t] = lo]
          /\ thigh' = [thigh EXCEPT ![t] = hi]
          /\ IF lo > hi
             THEN /\ processed' = [processed EXCEPT ![sid] = @ + 1]
                  /\ UNCHANGED << tpc, tsegment >>
             ELSE /\ tsegment' = [tsegment EXCEPT
                                    ![BufferOf(t)] = NewSegment(OddCount(lo, hi))]
                  /\ tpc' = [tpc EXCEPT ![t] = "mark"]
                  /\ UNCHANGED processed
    /\ actor' = t
    /\ UNCHANGED << inputVars, pc, ret, sieveVars, serialVars, num_segments,
                    total_count, priv, ub, probe >>

\* Thread t marks the composites of its segment with the shared base primes.
omp_mark(t) ==
    /\ pc = "parallel"
    /\ tpc[t] = "mark"
    /\ LET st == OmpMark([seg |-> tsegment[BufferOf(t)], oob |-> FALSE],
                         tlow[t], thigh[t], base_primes, 1)
       IN IF st.oob
          THEN /\ ub' = TRUE
               /\ \E junk \in [DOMAIN st.seg -> BOOLEAN] :
                      tsegment' = [tsegment EXCEPT ![BufferOf(t)] = junk]
          ELSE /\ tsegment' = [tsegment EXCEPT ![BufferOf(t)] = st.seg]
               /\ UNCHANGED ub
    /\ tpc' = [tpc EXCEPT ![t] = "count"]
    /\ actor' = t
    /\ UNCHANGED << inputVars, pc, ret, sieveVars, serialVars, num_segments,
                    total_count, next_seg, seg_id, tlow, thigh, priv, processed, probe >>

\* Thread t counts the survivors of its segment into local_count and adds it to its
\* private copy of total_count; the buffer is destroyed at the end of the body.
omp_count(t) ==
    /\ pc = "parallel"
    /\ tpc[t] = "count"
    /\ LET local_count == CountSurvivors(tsegment[BufferOf(t)], tlow[t],
                                         OddCount(tlow[t], thigh[t]), N)
       IN priv' = [priv EXCEPT ![t] = @ + local_count]
    /\ processed' = [processed EXCEPT ![seg_id[t]] = @ + 1]
    /\ tsegment' = [tsegment EXCEPT ![BufferOf(t)] = << >>]
    /\ tpc' = [tpc EXCEPT ![t] = "idle"]
    /\ actor' = t
    /\ UNCHANGED << inputVars, pc, ret, sieveVars, serialVars, num_segments,
                    total_count, next_seg, seg_id, tlow, thigh, ub, probe >>

\* Thread t finds no iteration left and leaves the loop.
omp_finish(t) ==
    /\ pc = "parallel"
    /\ tpc[t] = "idle"
    /\ NoMoreIterations(next_seg, num_segments)
    /\ tpc' = [tpc EXCEPT ![t] = "finished"]
    /\ actor' = t
    /\ UNCHANGED << inputVars, pc, ret, sieveVars, serialVars, num_segments,
                    total_count, next_seg, seg_id, tlow, thigh, tsegment, priv,
                    processed, ub, probe >>

\* The reduction combines thread t's private copy into the original total_count
\* (atomically; when, between the thread leaving the loop and the barrier, is
\* unspecified).
omp_combine(t) ==
    /\ pc = "parallel"
    /\ tpc[t] = "finished"
    /\ total_count' = total_count + priv[t]
    /\ tpc' = [tpc EXCEPT ![t] = "joined"]
    /\ actor' = t
    /\ UNCHANGED << inputVars, pc, ret, sieveVars, serialVars, num_segments,
                    next_seg, seg_id, tlow, thigh, tsegment, priv, processed, ub,
                    probe >>

\* The implicit barrier has been passed by every thread: return total_count.
omp_return ==
    /\ pc = "parallel"
    /\ \A t \in DOMAIN tpc : tpc[t] = "joined"
    /\ ret' = total_count
    /\ pc' = "done"
    /\ actor' = 0
    /\ UNCHANGED << inputVars, sieveVars, serialVars, ompVars, probe >>

OmpNext ==
    \/ omp_entry
    \/ omp_plan
    \/ \E t \in DOMAIN tpc : omp_claim(t)
    \/ \E t \in DOMAIN tpc : omp_mark(t)
    \/ \E t \in DOMAIN tpc : omp_count(t)
    \/ \E t \in DOMAIN tpc : omp_finish(t)
    \/ \E t \in DOMAIN tpc : omp_combine(t)
    \/ omp_return

\* ------------------------------------------------------------------
\* "wide" runs: the integer expressions of the segment loops for large N
\* ------------------------------------------------------------------

\* limit = (int)floor(sqrt((long double)N))
wide_entry ==
    /\ pc = "entry"
    /\ prog = "wide"
    /\ limit' = FloorSqrt(N)
    /\ pc' = "w_segment"
    /\ actor' = 0
    /\ UNCHANGED << inputVars, ret, is_prime, i, base_primes, serialVars, ompVars, probe >>

\* The bounds of one segment (the first two and the last two are tried):
\* seg_id * SEG_SIZE, low, low + SEG_SIZE - 1, high, and the serial loop's low += SEG_SIZE.
wide_segment ==
    /\ pc = "w_segment"
    /\ \E sid \in {0, 1, NumSegments(N, W) - 2, NumSegments(N, W) - 1} :
          /\ sid >= 0
          /\ sid < NumSegments(N, W)
          /\ LET raw == OmpRawLow(sid, W)
                 lo == BumpOdd(raw)
             IN probe' = [probe EXCEPT !.seg_id = sid,
                                       !.offset = sid * W,
                                       !.raw_low = raw,
                                       !.high_sum = raw + W - 1,
                                       !.high = SegHigh(raw, W, N),
                                       !.low = lo,
                                       !.next_low = lo + W]
    /\ pc' = "w_prime"
    /\ actor' = 0
    /\ UNCHANGED << inputVars, ret, sieveVars, serialVars, ompVars >>

\* One base prime p with p*p <= high: p2, (low + p64 - 1), the first multiple, start.
wide_prime ==
    /\ pc = "w_prime"
    /\ \E p \in WidePrimeSample :
          /\ p <= limit
          /\ IsPrime(p) = TRUE
          /\ p * p <= probe.high
          /\ (probe.high - probe.low) \div (2 * p) <= MaxWideSteps
          /\ probe' = [probe EXCEPT !.p = p,
                                    !.p2 = p * p,
                                    !.ceil_sum = probe.low + p - 1,
                                    !.first = FirstMultiple(probe.low, p),
                                    !.start = MarkStart(probe.low, p),
                                    !.x = MarkStart(probe.low, p)]
    /\ pc' = "w_mark"
    /\ actor' = 0
    /\ UNCHANGED << inputVars, ret, sieveVars, serialVars, ompVars >>

\* The loop over the base primes ends (all used, or p*p > high).
wide_break ==
    /\ pc = "w_prime"
    /\ pc' = "done"
    /\ actor' = 0
    /\ UNCHANGED << inputVars, ret, sieveVars, serialVars, ompVars, probe >>

\* One iteration of the marking loop: x += 2 * p64.
wide_step ==
    /\ pc = "w_mark"
    /\ probe.x <= probe.high
    /\ probe' = [probe EXCEPT !.x = @ + 2 * probe.p]
    /\ actor' = 0
    /\ UNCHANGED << inputVars, pc, ret, sieveVars, serialVars, ompVars >>

\* The marking loop's condition x <= high fails.
wide_end ==
    /\ pc = "w_mark"
    /\ ~(probe.x <= probe.high)
    /\ pc' = "done"
    /\ actor' = 0
    /\ UNCHANGED << inputVars, ret, sieveVars, serialVars, ompVars, probe >>

WideNext ==
    \/ wide_entry
    \/ wide_segment
    \/ wide_prime
    \/ wide_break
    \/ wide_step
    \/ wide_end

SerialNext ==
    \/ serial_entry
    \/ serial_loop_init
    \/ serial_segment
    \/ serial_mark
    \/ serial_count
    \/ serial_return

SieveNext ==
    \/ simple_sieve_enter
    \/ simple_sieve_outer
    \/ simple_sieve_collect

Next ==
    \/ SieveNext
    \/ SerialNext
    \/ OmpNext
    \/ WideNext

Spec == Init /\ [][Next]_vars

\* The steps of the main thread, and those of thread t of the team.
MainNext ==
    \/ SieveNext
    \/ SerialNext
    \/ omp_entry
    \/ omp_plan
    \/ omp_return
    \/ WideNext

ThreadNext(t) ==
    /\ t \in DOMAIN tpc
    /\ \/ omp_claim(t)
       \/ omp_mark(t)
       \/ omp_count(t)
       \/ omp_finish(t)
       \/ omp_combine(t)

TeamIds == Threads

\* The inputs of the runs checked for termination: the serial runs up to MaxN, and
\* the parallel runs of teams of at most MaxTLive threads up to MaxNLive.
LiveInputs ==
    {inp \in Inputs :
        /\ inp.prog = "serial" => inp.N <= MaxN
        /\ inp.prog = "openmp" => (inp.N <= MaxNLive /\ inp.T <= MaxTLive)}

\* Every OS thread that can take a step eventually takes one.
FairSpec ==
    /\ InitFrom(LiveInputs)
    /\ [][Next]_vars
    /\ WF_vars(MainNext)
    /\ \A t \in TeamIds : WF_vars(ThreadNext(t))

\* ------------------------------------------------------------------
\* Properties
\* ------------------------------------------------------------------

\* The width is SEG_SIZE or a smaller width of the same parity standing in for it.
ShippedWidth == W % 2 = SEG_SIZE % 2

Returned == pc = "done"

\* The state machine and the functional form of the routines agree.
Coherent ==
    /\ (prog = "simple_sieve" /\ pc = "done") => base_primes = simple_sieve(limit)
    /\ (prog = "serial" /\ pc = "done") => ret = sieve_serial(N, W)
    /\ (prog = "openmp" /\ pc = "parallel") =>
           SumOf(priv) = SumOf([k \in DOMAIN processed |->
                                   processed[k] * OmpLocalCount(k, N, W, base_primes)])

\* C1: sieve_serial(N) returns the number of primes in [2, N]: 0 for N < 2, 1 for
\* N = 2, the reference values for 3, 10, 100 and 1000, and no prime at the upper
\* edge of the last, possibly truncated, segment is missed or counted twice.
C1_SerialCountsPrimes ==
    (prog = "serial" /\ Returned /\ ShippedWidth) =>
        /\ ret = PrimeCount(N)
        /\ N < 2 => ret = 0
        /\ N = 2 => ret = 1
        /\ N = 3 => ret = 2
        /\ N = 10 => ret = 4
        /\ N = 100 => ret = 25
        /\ N = 1000 => ret = 168

\* A run of several segments whose last one is cut short by N, N itself prime.
C1_Witness ==
    /\ prog = "serial" /\ Returned /\ ShippedWidth
    /\ Len(seglog) >= 3
    /\ seglog[Len(seglog)].high < seglog[Len(seglog)].raw_low + W - 1
    /\ IsPrime(N)
    /\ ret = PrimeCount(N)

\* C2: for every N, every team size and every order in which the threads claim
\* and finish segments, sieve_openmp(N, T) returns what sieve_serial(N) returns
\* with the same segment width.
C2_ParallelEqualsSerial ==
    (prog = "openmp" /\ Returned /\ ShippedWidth) => ret = sieve_serial(N, W)

\* A team of at least two threads has shared three or more segments, each thread
\* having found primes.
C2_Witness ==
    /\ prog = "openmp" /\ Returned /\ ShippedWidth
    /\ num_threads >= 2
    /\ num_segments >= 3
    /\ \A t \in DOMAIN priv : priv[t] > 0
    /\ ret = sieve_serial(N, W)

\* C3: segment-width invariance: for fixed N every positive width substituted for
\* SEG_SIZE gives the same serial count and the same parallel count.
C3_WidthInvariance ==
    /\ (prog = "serial" /\ Returned) => \A w2 \in Widths : ret = sieve_serial(N, w2)
    /\ (prog = "openmp" /\ Returned) => \A w2 \in Widths : ret = sieve_openmp(N, w2)

\* The parallel half of C3 alone.
C3_ParallelWidthInvariance ==
    (prog = "openmp" /\ Returned) => \A w2 \in Widths : ret = sieve_openmp(N, w2)

\* ceil(a / b) for a >= 0, b > 0
CeilDiv(a, b) == (a + b - 1) \div b

\* The k-th raw segment (k = 0, 1, ...) of width w over [3, n].
RawLowOf(k, w) == 3 + k * w
RawHighOf(k, w, n) == Min(RawLowOf(k, w) + w - 1, n)
NextOdd(v) == IF v % 2 = 0 THEN v + 1 ELSE v

\* The raw segments 0..count-1 are contiguous, disjoint and cover [3, n].
RawPartition(count, w, n) ==
    \A v \in 3..n :
        Cardinality({k \in 0..(count - 1) :
                        RawLowOf(k, w) <= v /\ v <= RawHighOf(k, w, n)}) = 1

\* C4, serial loop: iteration k sees raw_low = 3 + k*W, high = min(raw_low + W - 1, N)
\* and sieves from raw_low bumped to the next odd value; when the loop has ended
\* there were ceil((N - 2) / W) iterations, which partition [3, N].
C4_SerialPlan ==
    prog = "serial" =>
        /\ \A k \in 1..Len(seglog) :
               /\ seglog[k].raw_low = RawLowOf(k - 1, W)
               /\ seglog[k].high = RawHighOf(k - 1, W, N)
               /\ seglog[k].low = NextOdd(RawLowOf(k - 1, W))
               /\ seglog[k].low % 2 = 1 /\ seglog[k].low >= 3
        /\ (Returned /\ N >= 2) =>
               /\ Len(seglog) = CeilDiv(N - 2, W)
               /\ RawPartition(Len(seglog), W, N)

\* C4, parallel loop: the same for iteration seg_id of a thread, with num_segments
\* = ceil((N - 2) / W); a skipped iteration adds nothing to any count.
C4_ParallelPlan ==
    (prog = "openmp" /\ pc = "parallel") =>
        /\ num_segments = CeilDiv(N - 2, W)
        /\ RawPartition(num_segments, W, N)
        /\ \A t \in DOMAIN tpc :
               tpc[t] \in {"mark", "count"} =>
                   /\ tlow[t] = NextOdd(RawLowOf(seg_id[t], W))
                   /\ thigh[t] = RawHighOf(seg_id[t], W, N)
                   /\ tlow[t] % 2 = 1 /\ tlow[t] >= 3
        /\ \A k \in DOMAIN processed :
               NextOdd(RawLowOf(k, W)) > RawHighOf(k, W, N) =>
                   OmpLocalCount(k, N, W, base_primes) = 0
        /\ SumOf(priv) = SumOf([k \in DOMAIN processed |->
                                   processed[k] * OmpLocalCount(k, N, W, base_primes)])

\* C4: the segment plan of both loops.
C4_SegmentPlan == C4_SerialPlan /\ C4_ParallelPlan

\* C5: simple_sieve(limit) returns exactly the primes p with 2 <= p <= limit, in
\* strictly ascending order, without omissions or duplicates; empty for limit < 2.
C5_BasePrimes ==
    (pc \in {"sieved", "done"} /\ (prog = "simple_sieve" \/ (prog \in {"serial", "openmp"} /\ N >= 2))) =>
        /\ base_primes = SetToSortedSeq(PrimesUpTo(limit))
        /\ \A a, b \in 1..Len(base_primes) : a < b => base_primes[a] < base_primes[b]
        /\ limit < 2 => base_primes = << >>

\* simple_sieve called on its own has returned the ten primes up to 29 or more.
C5_Witness ==
    /\ prog = "simple_sieve" /\ pc = "done"
    /\ limit >= 29
    /\ Len(base_primes) >= 10
    /\ base_primes[10] = 29

\* simple_sieve called with limit < 2 has returned.
C5_WitnessEmpty ==
    prog = "simple_sieve" /\ pc = "done" /\ limit < 2 /\ base_primes = << >>

\* C6: every iteration 0..num_segments-1 is claimed by exactly one thread and its
\* body runs exactly once: never twice, and none is left when the loop has ended.
C6_EachSegmentOnce ==
    (prog = "openmp" /\ pc \in {"parallel", "done"}) =>
        /\ DOMAIN processed = 0..(num_segments - 1)
        /\ \A k \in DOMAIN processed : processed[k] <= 1
        /\ \A t, u \in DOMAIN tpc :
               (t # u /\ tpc[t] \in {"mark", "count"} /\ tpc[u] \in {"mark", "count"})
                   => seg_id[t] # seg_id[u]
        /\ \A t \in DOMAIN tpc :
               tpc[t] \in {"mark", "count"} =>
                   seg_id[t] < next_seg /\ processed[seg_id[t]] = 0
        /\ \A k \in DOMAIN processed :
               (k >= next_seg) => processed[k] = 0
        /\ ((\A t \in DOMAIN tpc : tpc[t] \in {"finished", "joined"}) \/ pc = "done")
               => \A k \in DOMAIN processed : processed[k] = 1

\* The loop has ended for a team of two or more that shared three or more segments,
\* two different threads having claimed some.
C6_Witness ==
    /\ prog = "openmp" /\ pc = "parallel"
    /\ \A t \in DOMAIN tpc : tpc[t] = "finished"
    /\ num_segments >= 3
    /\ \E t, u \in DOMAIN tpc : t # u /\ seg_id[t] > 0 /\ seg_id[u] > 0
    /\ \A k \in DOMAIN processed : processed[k] = 1

\* The threads whose private copy has been combined into total_count.
Joined == {t \in DOMAIN tpc : tpc[t] = "joined"}

\* C7 as stated: total_count is never modified while a thread of the team is still
\* running, is returned only after every thread has finished, and is then 1 plus
\* the sum of the private copies.
C7_TotalUntouchedWhileRunning ==
    /\ [][(prog = "openmp" /\ pc = "parallel" /\ total_count' # total_count) =>
              \A t \in DOMAIN tpc : tpc[t] \in {"finished", "joined"}]_vars
    /\ []((prog = "openmp" /\ pc = "done" /\ N >= 3) => ret = 1 + SumOf(priv))

\* C7 amended: total_count is modified only by the reduction, which adds a thread's
\* private copy to it once, after that thread has left the loop (other threads may
\* still be running); a segment's count is added only to the private copy of the
\* thread that counted it; total_count is returned only after every private copy
\* has been combined, and is then 1 plus the sum of the private copies, which is
\* the sum of the segments' counts: the initial 1 is counted once whatever T is.
C7_TotalOnlyByReduction ==
    /\ [][(prog = "openmp" /\ total_count' # total_count) =>
              \/ pc = "entry" /\ total_count' = 1
              \/ \E t \in DOMAIN tpc :
                    /\ tpc[t] = "finished" /\ tpc'[t] = "joined"
                    /\ total_count' = total_count + priv[t]]_vars
    /\ [][(prog = "openmp" /\ pc = "parallel") =>
              \A t \in DOMAIN tpc :
                  priv'[t] # priv[t] =>
                      /\ actor' = t /\ tpc[t] = "count"
                      /\ priv'[t] = priv[t]
                             + OmpLocalCount(seg_id[t], N, W, base_primes)]_vars
    /\ [][(prog = "openmp" /\ pc = "parallel" /\ ret' # ret) =>
              /\ \A t \in DOMAIN tpc : tpc[t] = "joined"
              /\ ret' = total_count]_vars
    /\ []((prog = "openmp" /\ pc = "parallel") =>
              total_count = 1 + SumOf([t \in DOMAIN tpc |->
                                          IF t \in Joined THEN priv[t] ELSE 0]))
    /\ []((prog = "openmp" /\ pc = "done" /\ N >= 3) =>
              /\ ret = 1 + SumOf(priv)
              /\ SumOf(priv) = SumOf([k \in 0..(num_segments - 1) |->
                                         OmpLocalCount(k, N, W, base_primes)]))

\* One thread's private copy has been combined into total_count while another
\* thread is still working on a segment.
C7_Witness ==
    /\ prog = "openmp" /\ pc = "parallel"
    /\ \E t, u \in DOMAIN tpc :
          /\ tpc[t] = "joined" /\ priv[t] > 0 /\ total_count = 1 + priv[t]
          /\ tpc[u] \in {"mark", "count"}

\* sieve_openmp has returned the total of a team of two or more, each thread
\* having found primes.
C7_WitnessReturned ==
    /\ prog = "openmp" /\ pc = "done" /\ N >= 3
    /\ num_threads >= 2
    /\ \A t \in DOMAIN priv : priv[t] > 0
    /\ ret = 1 + SumOf(priv)

\* C8: every run terminates under fair scheduling of the threads: the serial
\* segment loop and the marking loops end, and sieve_openmp returns its total
\* after every segment has been processed.
C8_Terminates ==
    <>(/\ pc = "done"
       /\ prog \in {"serial", "openmp"} => ret >= 0
       /\ prog = "openmp" => \A k \in DOMAIN processed : processed[k] = 1)

\* A parallel run over several segments has returned.
C8_Witness ==
    /\ prog = "openmp" /\ pc = "done"
    /\ num_threads >= 2
    /\ num_segments >= 2
    /\ ret >= 3

\* A marking loop over a segment of the largest N has ended.
C8_WitnessLoop ==
    prog = "wide" /\ pc = "done" /\ probe.x > probe.high /\ probe.start <= probe.high

\* C9: during the parallel phase the base primes do not change; a thread's buffer,
\* private count and segment bounds are written only by that thread; and while a
\* thread marks or counts a segment it writes nothing but its own buffer and
\* private count (and its position).
C9_WorkerFrame ==
    [][(prog = "openmp" /\ pc = "parallel") =>
           /\ base_primes' = base_primes
           /\ \A t \in DOMAIN tpc :
                  (\/ tsegment'[t] # tsegment[t]
                   \/ priv'[t] # priv[t]
                   \/ tlow'[t] # tlow[t]
                   \/ thigh'[t] # thigh[t]
                   \/ seg_id'[t] # seg_id[t]) => actor' = t
           /\ \A t \in DOMAIN tpc :
                  (actor' = t /\ tpc[t] \in {"mark", "count"} /\ tpc'[t] # tpc[t]) =>
                      /\ total_count' = total_count
                      /\ next_seg' = next_seg
                      /\ \A u \in DOMAIN tpc \ {t} :
                             /\ tsegment'[u] = tsegment[u]
                             /\ priv'[u] = priv[u]
                             /\ tpc'[u] = tpc[u]]_vars

\* Two threads hold buffers at the same time, one already marked.
C9_Witness ==
    /\ prog = "openmp" /\ pc = "parallel"
    /\ \E t, u \in DOMAIN tpc :
          /\ t # u
          /\ tpc[t] = "count" /\ tpc[u] = "mark"
          /\ \E k \in DOMAIN tsegment[t] : ~tsegment[t][k]
          /\ tsegment[u] # << >>
          /\ priv[t] > 0

\* The largest value an intermediate of the segment loops can take for this N.
WideCeiling == N + W + 2 * limit

ProbeValues ==
    {probe.offset, probe.raw_low, probe.high_sum, probe.low, probe.high,
     probe.next_low, probe.p2, probe.ceil_sum, probe.first, probe.start, probe.x}

\* C10: for 2 <= N <= 10^9 nothing wraps: limit is floor(sqrt(N)) and limit + 1 fits
\* a 32-bit int; p*p, seg_id*SEG_SIZE, low + SEG_SIZE - 1, ((low + p - 1) / p) * p,
\* start + p and x + 2p are non-negative and at most N + SEG_SIZE + 2*limit, which
\* is below 2^31 and so fits a signed 64-bit integer.
C10_NoWrap ==
    (prog = "wide" /\ pc # "entry") =>
        /\ 2 <= N /\ N <= WideMaxN
        /\ limit * limit <= N /\ N < (limit + 1) * (limit + 1)
        /\ 0 <= limit /\ limit + 1 <= INT_MAX
        /\ WideCeiling <= INT_MAX
        /\ \A v \in ProbeValues : 0 <= v /\ v <= WideCeiling
        /\ probe.p2 <= N
        /\ probe.offset <= N

\* The marking loop of the last segment of the largest N has ended for the
\* largest base prime tried.
C10_Witness ==
    /\ prog = "wide" /\ pc = "done"
    /\ N = WideMaxN
    /\ probe.seg_id = NumSegments(N, W) - 1
    /\ probe.p = 31607
    /\ probe.x > probe.high

\* The segment a state is sieving, if any: records [low, high, seg] for the serial
\* loop and for every thread of the team that has marked its buffer.
MarkedSegments ==
    (IF prog = "serial" /\ pc = "count"
     THEN {[low |-> low, high |-> high, seg |-> segment]} ELSE {})
    \cup
    (IF prog = "openmp" /\ pc = "parallel"
     THEN {[low |-> tlow[t], high |-> thigh[t], seg |-> tsegment[t]] :
              t \in {u \in DOMAIN tpc : tpc[u] = "count"}}
     ELSE {})

\* The base-prime loop stopped early for this segment: an odd base prime has p*p > high.
StoppedEarly(hi) ==
    \E k \in 1..Len(base_primes) :
        base_primes[k] # 2 /\ base_primes[k] * base_primes[k] > hi

\* C11: when the base-prime loop of a non-degenerate segment [low, high] (low odd,
\* 3 <= low <= high <= N) has ended, buffer position k is true exactly when
\* low + 2k is prime, and the segment's count is the number of primes in
\* [low, high]; this holds whether the loop used every base prime or stopped at
\* the first p with p*p > high.
C11_SegmentSieved ==
    \A s \in MarkedSegments :
        /\ s.low % 2 = 1 /\ 3 <= s.low /\ s.low <= s.high /\ s.high <= N
        /\ base_primes = SetToSortedSeq(PrimesUpTo(FloorSqrt(N)))
        /\ DOMAIN s.seg = 0..(OddCount(s.low, s.high) - 1)
        /\ \A k \in DOMAIN s.seg : s.seg[k] = IsPrime(s.low + 2 * k)
        /\ CountSurvivors(s.seg, s.low, OddCount(s.low, s.high), N)
               = Cardinality({x \in s.low..s.high : IsPrime(x)})

\* A serial segment whose base-prime loop stopped early (5*5 > high) after 3 had
\* marked a composite, with primes left standing.
C11_Witness ==
    /\ prog = "serial" /\ pc = "count"
    /\ StoppedEarly(high)
    /\ \E k \in DOMAIN segment : ~segment[k]
    /\ \E k \in DOMAIN segment : segment[k]

\* A segment of the parallel loop sieved with every base prime (3 and 5).
C11_WitnessAllUsed ==
    /\ prog = "openmp" /\ pc = "parallel"
    /\ \E t \in DOMAIN tpc :
          /\ tpc[t] = "count"
          /\ Len(base_primes) >= 3
          /\ ~StoppedEarly(thigh[t])
          /\ \E k \in DOMAIN tsegment[t] : ~tsegment[t][k] /\ (tlow[t] + 2 * k) % 3 # 0

\* The segments whose base-prime loop is running or has run: [low, high] of the
\* serial loop and of every thread of the team that holds a buffer.
SievingSegments ==
    (IF prog = "serial" /\ pc \in {"mark", "count"}
     THEN {[low |-> low, high |-> high]} ELSE {})
    \cup
    (IF prog = "openmp" /\ pc = "parallel"
     THEN {[low |-> tlow[t], high |-> thigh[t]] :
              t \in {u \in DOMAIN tpc : tpc[u] \in {"mark", "count"}}}
     ELSE {})

\* The odd base primes the loop uses on a segment ending at hi.
MarkingPrimes(hi) ==
    {base_primes[k] : k \in {j \in 1..Len(base_primes) :
                                base_primes[j] # 2 /\ base_primes[j] * base_primes[j] <= hi}}

OddMultiple(x, p) == x % 2 = 1 /\ x % p = 0

\* C12: for every segment and every odd base prime p with p*p <= high the marking
\* loop starts at the smallest odd multiple of p that is >= max(p*p, low); every
\* x it visits is an odd multiple of p with low <= x <= high, so its index
\* (x - low) / 2 is in 0..odd_count-1: the serial bounds test never fails (the
\* guarded and the unguarded loop write the same positions) and the unchecked
\* write of the parallel variant is never outside the buffer.
C12_MarkingInBounds ==
    /\ ub = FALSE
    /\ \A s \in SievingSegments : \A p \in MarkingPrimes(s.high) :
          LET start == MarkStart(s.low, p)
              from == Max(p * p, s.low)
              odd_count == OddCount(s.low, s.high)
              fresh == NewSegment(odd_count)
          IN /\ OddMultiple(start, p)
             /\ start >= from
             /\ \A y \in from..(start - 1) : ~OddMultiple(y, p)
             /\ \A x \in Visited(start, s.high, p) :
                   /\ OddMultiple(x, p)
                   /\ s.low <= x /\ x <= s.high
                   /\ (x - s.low) % 2 = 0
                   /\ 0 <= IndexOf(x, s.low) /\ IndexOf(x, s.low) < odd_count
             /\ OmpMarkPrime([seg |-> fresh, oob |-> FALSE], s.low, s.high, start, p)
                    = [seg |-> SerialMarkPrime(fresh, s.low, s.high, start, p),
                       oob |-> FALSE]

\* A thread of the team has marked a segment that starts beyond 3*3: 5 marked a
\* value, and for some base prime the first multiple at or above low was even and
\* was moved up by p.
C12_Witness ==
    /\ prog = "openmp" /\ pc = "parallel" /\ ~ub
    /\ \E t \in DOMAIN tpc :
          /\ tpc[t] = "count"
          /\ tlow[t] > 9
          /\ 5 \in MarkingPrimes(thigh[t])
          /\ Visited(MarkStart(tlow[t], 5), thigh[t], 5) # {}
          /\ \E p \in MarkingPrimes(thigh[t]) :
                TruncMod(Max(p * p, FirstMultiple(tlow[t], p)), 2) = 0
          /\ \E k \in DOMAIN tsegment[t] : ~tsegment[t][k]

\* The serial loop has marked a segment with several values visited per prime.
C12_WitnessSerial ==
    /\ prog = "serial" /\ pc = "count"
    /\ \A p \in MarkingPrimes(high) : Cardinality(Visited(MarkStart(low, p), high, p)) >= 2
    /\ Cardinality(MarkingPrimes(high)) >= 3

====
